---- MODULE Spec2Model ----
(***************************************************************************)
(* The genetic-algorithm notebook (src/genetic_algorithm/GA.ipynb): the    *)
(* numerical kernel (tournament selection, two point crossover, mutation,  *)
(* one generational update), the GeneticAlgorithm object and the dashboard *)
(* callbacks that drive it.  Further down: the flock of the boids notebook,*)
(* euler_step, trajectory_coords and load_google_landsat_metadata, each    *)
(* under a specification of its own.                                       *)
(*                                                                         *)
(* Numbers.  Coordinates are reals in the notebook.  Here a coordinate is  *)
(* an integer number of grid steps of 1/Scale, so the values np.random.rand*)
(* draws from [0,1) are 0..Scale-1.  A fitness is held in units of         *)
(* 1/(n * Scale^2) for vectors of n genes, so that the mean of the squared *)
(* differences is the sum of the squared grid differences.  Probabilities  *)
(* (the mutation rate and the draw it is compared with) are held in steps  *)
(* of 1/RateSteps.                                                         *)
(*                                                                         *)
(* Randomness.  Every random draw of the code is a parameter of the        *)
(* operator that models the function; the actions choose it with \E.       *)
(***************************************************************************)
EXTENDS Integers, Sequences, FiniteSets

VARIABLES
    ga_current_population,  \* ga.current_population
    ga_current_best,        \* ga.current_best
    target_x,               \* global target_x
    target_y,               \* global target_y
    mutate_checkbox,        \* mutate_checkbox.value
    niters_slider,          \* niters_slider.value
    mutation_rate_slider,   \* mutation_rate_slider.value, in steps of 1/RateSteps
    mutation_scale_slider,  \* mutation_scale_slider.value
    displayed,              \* what dmap shows: the value update() returned last
    periodic_instance,      \* dmap.periodic.instance: the run started by b
    tapped,                 \* the last position the tap stream held
    last_event,             \* history: the callback that made the last step, with
                            \*   its arguments
    next_generation_calls,  \* history: calls of ga.next_generation it made
    call,                   \* the last direct application of a kernel function
    boids,                  \* the global boids of src/boids/boids.ipynb: pos, vel,
                            \*   iteration, width, height
    boids_displayed         \* what the dmap of the boids notebook shows

vars == <<ga_current_population, ga_current_best, target_x, target_y,
          mutate_checkbox, niters_slider, mutation_rate_slider,
          mutation_scale_slider, displayed, periodic_instance, tapped,
          last_event, next_generation_calls, call, boids, boids_displayed>>

(***************************************************************************)
(* Bounds of the model.                                                    *)
(***************************************************************************)
\* grid steps per unit: np.random.rand draws 0..Scale-1, i.e. 0, 1/Scale, ...
Scale == 2
\* half the number of individuals of the dashboard's population (50 there)
HalfPopulation == 1
\* how far (grid steps) mutation may carry a coordinate out of [0,1)
Drift == 0
\* largest Gaussian perturbation of one gene (grid steps)
MaxPerturbation == 1
\* tapped coordinates are 0..MaxTap grid steps
MaxTap == 0
\* mutate is applied with a mutation_scale of 0..MaxMutationScale
MaxMutationScale == 1
\* kernel functions are applied to populations of 0..MaxPopulation individuals
MaxPopulation == 3
\* crossover is applied to parents of 1..MaxLength genes
MaxLength == 3
\* tournaments are held among 1..MaxTournament challengers
MaxTournament == 3

(***************************************************************************)
(* Program constants.                                                      *)
(***************************************************************************)
vector_length == 2
tournament_size == 2
\* FloatSlider(start=0.0, end=1.0) moves in steps of 0.1
RateSteps == 10
population_size == 2 * HalfPopulation

\* Python's None; a value v that may be None instead is held as <<v>>
None == <<>>

Range(f) == {f[i] : i \in DOMAIN f}

Min(S) == CHOOSE m \in S : \A x \in S : m <= x

Max(S) == CHOOSE m \in S : \A x \in S : m >= x

RECURSIVE Sum(_, _)
Sum(f, n) == IF n = 0 THEN 0 ELSE f[n] + Sum(f, n - 1)

\* Python's s[a:b] for 0 <= a, 0 <= b: the elements of index a..b-1 that exist
Slice(s, a, b) == SubSeq(s, a + 1, IF b > Len(s) THEN Len(s) ELSE b)

\* the values of one coordinate the model holds
Coords == (0 - Drift)..(Scale - 1 + Drift)

\* the values np.random.rand draws, all in [0,1)
RandValues == 0..(Scale - 1)

InBox(individual) == \A i \in DOMAIN individual : individual[i] \in Coords

(***************************************************************************)
(* The kernel.                                                             *)
(***************************************************************************)
\* np.random.rand(population_size, vector_length): every array it may return
create_population(size, length) == [1..size -> [1..length -> RandValues]]

mean_squared_error(y_true, y_pred) ==
    Sum([i \in 1..Len(y_true) |-> (y_true[i] - y_pred[i]) * (y_true[i] - y_pred[i])],
        Len(y_true))

\* reads the globals target_x, target_y when it is called
problem(soln) == mean_squared_error(soln, <<target_x, target_y>>)

assess_fitness(individual) == problem(individual)

\* list.index: the first position holding v
index(list, v) == CHOOSE i \in 1..Len(list) : list[i] = v /\ \A j \in 1..(i - 1) : list[j] # v

\* mutant: the largest fitness is taken for the best
find_current_best_max(population) ==
    LET fitnesses == [i \in 1..Len(population) |-> assess_fitness(population[i])]
        best_value == Max(Range(fitnesses))
        best_index == index(fitnesses, best_value)
    IN  population[best_index]

find_current_best(population) ==
    LET fitnesses == [i \in 1..Len(population) |-> assess_fitness(population[i])]
        best_value == Min(Range(fitnesses))
        best_index == index(fitnesses, best_value)
    IN  population[best_index]

\* challengers_indexes is the draw np.random.choice(len(population), size, replace=True)
tournament_select_with_replacement(population, size, challengers_indexes) ==
    LET challengers == [k \in 1..size |-> population[challengers_indexes[k]]]
    IN  find_current_best(challengers)

\* the cut points after the flip and the d += 1: rc, rd are the two randint(0, l)
cut_points(rc, rd) ==
    LET c == IF rc > rd THEN rd ELSE rc
        d == IF rc > rd THEN rc ELSE rd
    IN  IF c = d THEN <<c, d + 1>> ELSE <<c, d>>

crossover(parent_a, parent_b, rc, rd) ==
    LET l == Len(parent_a)
        c == cut_points(rc, rd)[1]
        d == cut_points(rc, rd)[2]
        temp == parent_a
        child_a == Slice(parent_a, 0, c) \o Slice(parent_b, c, d) \o Slice(parent_a, d, l)
        child_b == Slice(parent_b, 0, c) \o Slice(temp, c, d) \o Slice(parent_b, d, Len(parent_b))
    IN  <<child_a, child_b>>

\* u is the draw random.uniform(0, 1), mutation_value the draw np.random.normal
mutate(child, mutation_rate, u, mutation_value) ==
    IF mutation_rate >= u
    THEN [i \in 1..Len(child) |-> child[i] + mutation_value[i]]
    ELSE child

\* np.random.normal(0, mutation_scale, size): a scale of 0 gives zeros
normal(mutation_scale, size) ==
    [1..size -> IF mutation_scale = 0 THEN {0} ELSE (0 - MaxPerturbation)..MaxPerturbation]

\* random.uniform(0, 1), in steps of 1/RateSteps
uniform == 0..RateSteps

\* the parents one tournament can select, over every draw of the challengers
winners(population) ==
    {tournament_select_with_replacement(population, tournament_size, ci) :
        ci \in [1..tournament_size -> 1..Len(population)]}

\* the children of two selected parents, over every draw of the cut points
children(population) ==
    {crossover(a, b, rc, rd) :
        a \in winners(population), b \in winners(population),
        rc \in 0..vector_length, rd \in 0..vector_length}

\* mutate(child, ...) if should_mutate else child, over every draw
mutations(child, should_mutate, mutation_rate, mutation_scale) ==
    IF should_mutate
    THEN {mutate(child, mutation_rate, u, v) :
             u \in uniform, v \in normal(mutation_scale, Len(child))}
    ELSE {child}

\* the two rows one iteration of the loop of update_population writes, over
\* every draw it makes
iteration_results(current_population, should_mutate, mutation_rate, mutation_scale) ==
    UNION {mutations(ch[1], should_mutate, mutation_rate, mutation_scale)
             \X mutations(ch[2], should_mutate, mutation_rate, mutation_scale) :
           ch \in children(current_population)}

\* a row of np.empty((pop_size, 2)) nothing was assigned to
Uninitialized == <<>>

\* int(i + (pop_size / 2))
position_child_b(i, pop_size) == (2 * i + pop_size) \div 2

\* iterations i, i+1, ... of the loop: rows[i+1] holds the two rows iteration i writes
RECURSIVE fill(_, _, _, _)
fill(next_population, rows, i, pop_size) ==
    IF i >= pop_size \div 2
    THEN next_population
    ELSE fill([next_population EXCEPT
                  ![i + 1] = rows[i + 1][1],
                  ![position_child_b(i, pop_size) + 1] = rows[i + 1][2]],
              rows, i + 1, pop_size)

\* next_population when the loop has ended
filled_population(current_population, rows) ==
    LET pop_size == Len(current_population)
    IN  fill([r \in 1..pop_size |-> Uninitialized], rows, 0, pop_size)

\* the rows the loop assigned nothing to
unassigned(next_population) ==
    {r \in 1..Len(next_population) : next_population[r] = Uninitialized}

\* mutant: only the rows of the first children are returned
update_population_first_children(current_population, rows, garbage) ==
    [r \in 1..(Len(current_population) \div 2) |->
        filled_population(current_population, rows)[r]]

\* garbage is what the memory of the rows nothing was assigned to holds
update_population(current_population, rows, garbage) ==
    LET next_population == filled_population(current_population, rows)
    IN  [r \in 1..Len(next_population) |->
            IF next_population[r] = Uninitialized THEN garbage[r] ELSE next_population[r]]

\* the draws of the whole loop: for each iteration the two rows it writes,
\* among those the model holds
loop_draws(current_population, should_mutate, mutation_rate, mutation_scale) ==
    [1..(Len(current_population) \div 2) ->
        {p \in iteration_results(current_population, should_mutate,
                                  mutation_rate, mutation_scale) :
            InBox(p[1]) /\ InBox(p[2])}]

\* what the memory of the rows nothing was assigned to may hold
garbage_draws(next_population) ==
    [unassigned(next_population) -> [1..vector_length -> Coords]]

\* every population update_population may return
next_populations(current_population, should_mutate, mutation_rate, mutation_scale) ==
    UNION {{update_population(current_population, rows, garbage) :
               garbage \in garbage_draws(filled_population(current_population, rows))} :
           rows \in loop_draws(current_population, should_mutate,
                               mutation_rate, mutation_scale)}

(***************************************************************************)
(* The GeneticAlgorithm object and the dashboard.  A callback runs to its  *)
(* end before the next one starts.  The dashboard is shown once; the       *)
(* sliders Time Evolving and Mutation Scale are left where the notebook    *)
(* sets them.                                                              *)
(***************************************************************************)
\* GeneticAlgorithm.next_generation(mrate, mscale, should_mutate) on the
\* population `current`
next_generation(current, mrate, mscale, should_mutate) ==
    \E next_population \in next_populations(current, should_mutate, mrate, mscale) :
        /\ ga_current_population' = next_population
        /\ ga_current_best' = find_current_best(next_population)
        /\ next_generation_calls' = 1

\* update(): ga.next_generation(...) with the widgets' values, then the Scatter
\* of ga.current_population and the Points of ga.current_best
update(current) ==
    /\ next_generation(current, mutation_rate_slider, mutation_scale_slider,
                       mutate_checkbox)
    /\ displayed' = <<[population |-> ga_current_population',
                       best |-> ga_current_best']>>

\* mutant: the trigger is lost, dmap is not evaluated again
trigger_lost(current) ==
    /\ ga_current_population' = current
    /\ ga_current_best' = find_current_best(current)
    /\ next_generation_calls' = 0
    /\ UNCHANGED displayed

\* hv.streams.Stream.trigger(dmap.streams): dmap is evaluated again, by update()
trigger(current) == update(current)

\* mutant: target_y is not declared global, the assignment is local
tap_event_local_y(x, y) ==
    /\ IF x # None
       THEN target_x' = x[1] /\ UNCHANGED target_y
       ELSE UNCHANGED <<target_x, target_y>>
    /\ tapped' = IF x # None THEN <<x[1], y[1]>> ELSE tapped
    /\ last_event' = <<"tap_event", x, y>>
    /\ next_generation_calls' = 0
    /\ UNCHANGED <<ga_current_population, ga_current_best, mutate_checkbox,
                   niters_slider, mutation_rate_slider, mutation_scale_slider,
                   displayed, periodic_instance, call,
                   boids, boids_displayed>>

\* tap_event(x, y): x and y are <<value>> or None
tap_event(x, y) ==
    /\ IF x # None
       THEN target_x' = x[1] /\ target_y' = y[1]
       ELSE UNCHANGED <<target_x, target_y>>
    /\ tapped' = IF x # None THEN <<x[1], y[1]>> ELSE tapped
    /\ last_event' = <<"tap_event", x, y>>
    /\ next_generation_calls' = 0
    /\ UNCHANGED <<ga_current_population, ga_current_best, mutate_checkbox,
                   niters_slider, mutation_rate_slider, mutation_scale_slider,
                   displayed, periodic_instance, call,
                   boids, boids_displayed>>

\* e(event), the callback of new_pop_button
e ==
    /\ \E created \in create_population(population_size, vector_length) :
          trigger(created)
    /\ last_event' = <<"e">>
    /\ UNCHANGED <<target_x, target_y, mutate_checkbox, niters_slider,
                   mutation_rate_slider, mutation_scale_slider,
                   periodic_instance, tapped, call,
                   boids, boids_displayed>>

\* next_gen_event(event), the callback of next_generation_button
next_gen_event ==
    /\ trigger(ga_current_population)
    /\ last_event' = <<"next_gen_event">>
    /\ UNCHANGED <<target_x, target_y, mutate_checkbox, niters_slider,
                   mutation_rate_slider, mutation_scale_slider,
                   periodic_instance, tapped, call,
                   boids, boids_displayed>>

running == periodic_instance # None /\ ~periodic_instance[1].completed

\* b(event), the callback of run_button: a periodic run of dmap with the
\* timeout the slider shows now; a run in progress is not replaced
b ==
    /\ periodic_instance' =
          IF running THEN periodic_instance
          ELSE <<[completed |-> FALSE, timeout |-> niters_slider]>>
    /\ last_event' = <<"b">>
    /\ next_generation_calls' = 0
    /\ UNCHANGED <<ga_current_population, ga_current_best, target_x, target_y,
                   mutate_checkbox, niters_slider, mutation_rate_slider,
                   mutation_scale_slider, displayed, tapped, call,
                   boids, boids_displayed>>

\* one period of the run has passed: the run triggers dmap's streams
periodic_callback ==
    /\ running
    /\ trigger(ga_current_population)
    /\ last_event' = <<"periodic">>
    /\ UNCHANGED <<target_x, target_y, mutate_checkbox, niters_slider,
                   mutation_rate_slider, mutation_scale_slider,
                   periodic_instance, tapped, call,
                   boids, boids_displayed>>

\* the timeout of the run has passed (time itself is not modelled)
periodic_timeout ==
    /\ running
    /\ periodic_instance' = [periodic_instance EXCEPT ![1].completed = TRUE]
    /\ last_event' = <<"none">>
    /\ next_generation_calls' = 0
    /\ UNCHANGED <<ga_current_population, ga_current_best, target_x, target_y,
                   mutate_checkbox, niters_slider, mutation_rate_slider,
                   mutation_scale_slider, displayed, tapped, call,
                   boids, boids_displayed>>

\* the values the user moves the Mutation Rate slider to: 0.3 and 1.0
RateChoices == {3, RateSteps}

\* the user sets a widget: no callback of the notebook is attached to these
set_widget ==
    /\ \/ mutate_checkbox' = ~mutate_checkbox
          /\ UNCHANGED mutation_rate_slider
       \/ \E v \in RateChoices \ {mutation_rate_slider} :
             mutation_rate_slider' = v
          /\ UNCHANGED mutate_checkbox
    /\ last_event' = <<"none">>
    /\ next_generation_calls' = 0
    /\ UNCHANGED <<ga_current_population, ga_current_best, target_x, target_y,
                   niters_slider, mutation_scale_slider, displayed,
                   periodic_instance, tapped, call,
                   boids, boids_displayed>>

TapValues == 0..MaxTap

\* GeneticAlgorithm.__init__ when the cell that defines the class runs: the
\* target is still the 0, 0 of the cell that defines problem
initial_ga ==
    \E created \in create_population(population_size, vector_length) :
        /\ ga_current_population = created
        /\ ga_current_best =
              LET fitnesses == [i \in 1..Len(created) |->
                                   mean_squared_error(created[i], <<0, 0>>)]
              IN  created[index(fitnesses, Min(Range(fitnesses)))]

\* the state when every cell has run
Init ==
    /\ initial_ga
    /\ target_x = 10 * Scale
    /\ target_y = (0 - 10) * Scale
    /\ tapped = <<10 * Scale, (0 - 10) * Scale>>
    /\ mutate_checkbox = TRUE
    /\ niters_slider = 5
    /\ mutation_rate_slider = 3
    /\ mutation_scale_slider = 1
    /\ displayed = None
    /\ periodic_instance = None
    /\ last_event = <<"none">>
    /\ next_generation_calls = 0
    /\ call = [fn |-> "none"]
    /\ boids = None
    /\ boids_displayed = None

Next ==
    \/ \E x \in TapValues, y \in TapValues : tap_event(<<x>>, <<y>>)
    \/ tap_event(None, None)
    \/ e
    \/ next_gen_event
    \/ b
    \/ periodic_callback
    \/ periodic_timeout
    \/ set_widget

Spec == Init /\ [][Next]_vars

(***************************************************************************)
(* The kernel functions applied directly, as the notebook's cells allow:   *)
(* the state is the one in which the cells that define them have run (the  *)
(* target is 0, 0 or the 10, -10 set later; no GeneticAlgorithm and no     *)
(* widget is looked at), and `call` records one application.               *)
(***************************************************************************)
Individuals == [1..vector_length -> RandValues]

Populations == UNION {[1..n -> Individuals] : n \in 0..MaxPopulation}

KernelUnchanged ==
    UNCHANGED <<ga_current_population, ga_current_best, target_x, target_y,
                mutate_checkbox, niters_slider, mutation_rate_slider,
                mutation_scale_slider, displayed, periodic_instance, tapped,
                last_event, next_generation_calls, boids, boids_displayed>>

call_tournament_select_with_replacement ==
    /\ call.fn = "none"
    /\ \E population \in Populations \ {<<>>}, size \in 1..MaxTournament :
          \E challengers_indexes \in [1..size -> 1..Len(population)] :
             call' = [fn |-> "tournament_select_with_replacement",
                      population |-> population,
                      tournament_size |-> size,
                      challengers_indexes |-> challengers_indexes,
                      result |-> tournament_select_with_replacement(
                                     population, size, challengers_indexes)]
    /\ KernelUnchanged

call_crossover ==
    /\ call.fn = "none"
    /\ \E l \in 1..MaxLength :
          \E parent_a \in [1..l -> RandValues], parent_b \in [1..l -> RandValues],
             rc \in 0..l, rd \in 0..l :
             call' = [fn |-> "crossover",
                      parent_a |-> parent_a, parent_b |-> parent_b,
                      c |-> rc, d |-> rd,
                      result |-> crossover(parent_a, parent_b, rc, rd)]
    /\ KernelUnchanged

call_mutate ==
    /\ call.fn = "none"
    /\ \E child \in Individuals, mutation_rate \in 0..RateSteps,
          mutation_scale \in 0..MaxMutationScale, u \in uniform :
          \E mutation_value \in normal(mutation_scale, Len(child)) :
             call' = [fn |-> "mutate",
                      child |-> child, mutation_rate |-> mutation_rate,
                      mutation_scale |-> mutation_scale,
                      u |-> u, mutation_value |-> mutation_value,
                      result |-> mutate(child, mutation_rate, u, mutation_value)]
    /\ KernelUnchanged

call_update_population ==
    /\ call.fn = "none"
    /\ \E current_population \in Populations, should_mutate \in BOOLEAN,
          mutation_rate \in {0, RateSteps}, mutation_scale \in 0..MaxMutationScale :
          \E rows \in loop_draws(current_population, should_mutate,
                                 mutation_rate, mutation_scale) :
             \E garbage \in garbage_draws(filled_population(current_population, rows)) :
                call' = [fn |-> "update_population",
                         current_population |-> current_population,
                         should_mutate |-> should_mutate,
                         mutation_rate |-> mutation_rate,
                         mutation_scale |-> mutation_scale,
                         next_population |-> filled_population(current_population, rows),
                         result |-> update_population(current_population, rows, garbage)]
    /\ KernelUnchanged

InitKernel ==
    /\ ga_current_population = None
    /\ ga_current_best = None
    /\ \/ target_x = 0 /\ target_y = 0
       \/ target_x = 10 * Scale /\ target_y = (0 - 10) * Scale
    /\ tapped = None
    /\ mutate_checkbox = None
    /\ niters_slider = None
    /\ mutation_rate_slider = None
    /\ mutation_scale_slider = None
    /\ displayed = None
    /\ periodic_instance = None
    /\ last_event = <<"none">>
    /\ next_generation_calls = 0
    /\ call = [fn |-> "none"]
    /\ boids = None
    /\ boids_displayed = None

NextKernel ==
    \/ call_tournament_select_with_replacement
    \/ call_crossover
    \/ call_mutate
    \/ call_update_population

SpecKernel == InitKernel /\ [][NextKernel]_vars

(***************************************************************************)
(* The boids notebook (src/boids/boids.ipynb).  A number is held in fixed  *)
(* point, as an integer count of steps of 1/Unit; a quotient is rounded    *)
(* down to a step and a square root to the step below it.  The NaN a       *)
(* division of zero by zero leaves is held as the vector NaN: the two      *)
(* components of a row become NaN together wherever the code produces one. *)
(***************************************************************************)
\* fixed-point steps per unit
Unit == 100
\* flock() is stepped at most MaxIterations times
MaxIterations == 3
\* a distance, in units, at which boids are placed around the centre at the start
NearRadius == 20
\* at most MaxBoids boids
MaxBoids == 3

\* BoidState.__init__(self, N=500, width=400, height=400)
width == 400
height == 400
\* dist < 25 and dist < 50 in flock
separation_distance == 25
neighbour_distance == 50

\* flock(self, min_vel=0.5, max_vel=2.0), limit_acceleration(..., maxacc=0.03)
max_vel == 2 * Unit
min_vel == Unit \div 2
maxacc == (3 * Unit) \div 100

\* a row of pos or vel whose components are NaN
NaN == <<>>

RECURSIVE isqrt_search(_, _, _)
isqrt_search(x, lo, hi) ==
    IF hi - lo <= 1 THEN lo
    ELSE LET mid == (lo + hi) \div 2
         IN  IF mid * mid <= x THEN isqrt_search(x, mid, hi)
             ELSE isqrt_search(x, lo, mid)

\* np.sqrt of a sum of squares of fixed-point numbers, rounded down
sqrt(x) == isqrt_search(x, 0, 46341)

\* np.sqrt((v*v).sum(axis=1)) of one row
row_norm(v) == sqrt(v[1] * v[1] + v[2] * v[2])

\* the row v * (num / den)
scaled(v, num, den) == <<(v[1] * num) \div den, (v[2] * num) \div den>>

RECURSIVE row_sum(_, _)
row_sum(rows, k) ==
    IF k = 0 THEN <<0, 0>>
    ELSE LET rest == row_sum(rows, k - 1)
         IN  <<rest[1] + rows[k][1], rest[2] + rows[k][2]>>

\* count(mask, n), for one row of the mask: np.maximum(mask.sum(axis=1), 1)
count(mask_row) ==
    LET c == Cardinality({j \in DOMAIN mask_row : mask_row[j]})
    IN  IF c >= 1 THEN c ELSE 1

\* limit_acceleration(steer, n, maxacc=0.03), for one row: a NaN norm is not
\* above maxacc, the row stays as it is
limit_acceleration(steer) ==
    IF steer = NaN THEN NaN
    ELSE LET norm == row_norm(steer)
         IN  IF norm > maxacc THEN scaled(steer, maxacc, norm) ELSE steer

\* dx[i][j], dy[i][j] of flock: np.subtract.outer on the columns of pos
delta(pos, i, j) == <<pos[i][1] - pos[j][1], pos[i][2] - pos[j][2]>>

\* the square of dist[i][j]
dist2(pos, i, j) ==
    delta(pos, i, j)[1] * delta(pos, i, j)[1] + delta(pos, i, j)[2] * delta(pos, i, j)[2]

\* row i of mask_1 and of mask_2: (dist > 0) * (dist < distance)
mask(pos, i, distance) ==
    [j \in 1..Len(pos) |->
        dist2(pos, i, j) > 0 /\ dist2(pos, i, j) < (distance * Unit) * (distance * Unit)]

\* the rows a mask selects, the others zero: the terms of (target*mask).sum
\* and of np.dot(mask, ...)
masked(rows, mask_row) ==
    [j \in 1..Len(rows) |-> IF mask_row[j] THEN rows[j] ELSE <<0, 0>>]

\* max_vel * np.divide(v, norm, out=v, where=norm != 0)
to_max_vel(v) ==
    LET norm == row_norm(v)
    IN  scaled(IF norm # 0 THEN scaled(v, Unit, norm) ELSE v, max_vel, Unit)

\* row i of separation
separation(pos, vel, i) ==
    LET n == Len(pos)
        mask_1 == mask(pos, i, separation_distance)
        target == [j \in 1..n |->
                      IF dist2(pos, i, j) # 0
                      THEN scaled(delta(pos, i, j), Unit * Unit, dist2(pos, i, j))
                      ELSE delta(pos, i, j)]
        steer == scaled(row_sum(masked(target, mask_1), n), 1, count(mask_1))
        to_max == to_max_vel(steer)
    IN  limit_acceleration(<<to_max[1] - vel[i][1], to_max[2] - vel[i][2]>>)

\* row i of alignment
alignment(pos, vel, i) ==
    LET n == Len(pos)
        mask_2 == mask(pos, i, neighbour_distance)
        target == to_max_vel(scaled(row_sum(masked(vel, mask_2), n), 1, count(mask_2)))
    IN  limit_acceleration(<<target[1] - vel[i][1], target[2] - vel[i][2]>>)

\* row i of cohesion: desired *= max_vel / norm is 0 * inf, NaN, when desired
\* is zero
cohesion(pos, vel, i) ==
    LET n == Len(pos)
        mask_2 == mask(pos, i, neighbour_distance)
        target == scaled(row_sum(masked(pos, mask_2), n), 1, count(mask_2))
        desired == <<target[1] - pos[i][1], target[2] - pos[i][2]>>
        norm == row_norm(desired)
    IN  IF norm = 0 THEN NaN
        ELSE LET at_max == scaled(desired, max_vel, norm)
             IN  limit_acceleration(<<at_max[1] - vel[i][1], at_max[2] - vel[i][2]>>)

\* row i of self.vel when flock has clamped it: the second clamp is 0 * inf,
\* NaN, when the velocity is zero
next_vel(pos, vel, i) ==
    LET s == scaled(separation(pos, vel, i), 3, 2)
        a == alignment(pos, vel, i)
        c == cohesion(pos, vel, i)
    IN  IF c = NaN THEN NaN
        ELSE LET v == <<vel[i][1] + s[1] + a[1] + c[1], vel[i][2] + s[2] + a[2] + c[2]>>
                 norm == row_norm(v)
                 capped == IF norm > max_vel THEN scaled(v, max_vel, norm) ELSE v
             IN  IF norm < min_vel
                 THEN IF norm = 0 THEN NaN ELSE scaled(capped, min_vel, norm)
                 ELSE capped

\* self.pos += self.vel + (self.width, self.height); self.pos %= (self.width,
\* self.height), for one row
next_pos(p, v, w, h) ==
    IF v = NaN THEN NaN
    ELSE <<(p[1] + v[1] + w * Unit) % (w * Unit), (p[2] + v[2] + h * Unit) % (h * Unit)>>

\* mutant: the step counter is left as it is
Boids_flock_no_count(self) ==
    LET n == Len(self.pos)
        any_nan == \E j \in 1..n : self.pos[j] = NaN \/ self.vel[j] = NaN
        vel == [i \in 1..n |-> IF any_nan THEN NaN ELSE next_vel(self.pos, self.vel, i)]
        pos == [i \in 1..n |->
                   IF any_nan THEN NaN
                   ELSE next_pos(self.pos[i], vel[i], self.width, self.height)]
    IN  [self EXCEPT !.vel = vel, !.pos = pos]

\* Boids.flock(self): a NaN row of pos or vel makes np.dot(mask_2, ...) NaN in
\* every row
Boids_flock(self) ==
    LET n == Len(self.pos)
        any_nan == \E j \in 1..n : self.pos[j] = NaN \/ self.vel[j] = NaN
        vel == [i \in 1..n |-> IF any_nan THEN NaN ELSE next_vel(self.pos, self.vel, i)]
        pos == [i \in 1..n |->
                   IF any_nan THEN NaN
                   ELSE next_pos(self.pos[i], vel[i], self.width, self.height)]
    IN  [self EXCEPT !.vel = vel, !.pos = pos, !.iteration = self.iteration + 1]

\* boids_vectorfield(boids): the positions and the label 'Iteration: %s'
boids_vectorfield(state) == [pos |-> state.pos, iteration |-> state.iteration]

\* flock(), the callback of dmap: one evaluation of dmap
flock ==
    /\ boids.iteration < MaxIterations
    /\ boids' = Boids_flock(boids)
    /\ boids_displayed' = <<boids_vectorfield(boids')>>
    /\ call' = [fn |-> "flock",
                evaluations |-> IF call.fn = "flock" THEN call.evaluations + 1 ELSE 1]
    /\ UNCHANGED <<ga_current_population, ga_current_best, target_x, target_y,
                   mutate_checkbox, niters_slider, mutation_rate_slider,
                   mutation_scale_slider, displayed, periodic_instance, tapped,
                   last_event, next_generation_calls>>

\* what np.cos and np.sin of the angles radarray draws are, for the angles
\* 0 and pi (cos) and 0, pi/2 (sin)
cos_draws == {1, 0 - 1}
sin_draws == {0, 1}

\* r, in units: min(width, height)/2 * np.random.uniform(0, 1, N) for the
\* draws 0, NearRadius/(min(width, height)/2) and one near the largest
r_draws == {0, NearRadius, Min({width, height}) \div 2 - 1}

\* BoidState.__init__: every state it leaves for the draws above
BoidState(N, w, h) ==
    {[width |-> w, height |-> h, iteration |-> 0, vel |-> vel, pos |-> pos] :
        vel \in [1..N -> {<<c * Unit, s * Unit>> : c \in cos_draws, s \in sin_draws}],
        pos \in [1..N -> {<<(w \div 2 + c * r) * Unit, (h \div 2 + s * r) * Unit>> :
                             c \in cos_draws, s \in {0}, r \in r_draws}]}

\* boids = Boids(N); dmap is not yet evaluated
InitBoids ==
    /\ \E N \in 1..MaxBoids : boids \in BoidState(N, width, height)
    /\ boids_displayed = None
    /\ ga_current_population = None
    /\ ga_current_best = None
    /\ target_x = 0
    /\ target_y = 0
    /\ tapped = None
    /\ mutate_checkbox = None
    /\ niters_slider = None
    /\ mutation_rate_slider = None
    /\ mutation_scale_slider = None
    /\ displayed = None
    /\ periodic_instance = None
    /\ last_event = <<"none">>
    /\ next_generation_calls = 0
    /\ call = [fn |-> "none"]

NextBoids == flock

SpecBoids == InitBoids /\ [][NextBoids]_vars

(***************************************************************************)
(* Functions of the other notebooks, applied directly; `call` records one  *)
(* application.  Numbers are integers here.                                *)
(***************************************************************************)
\* euler_step is applied at points of -MaxEuler..MaxEuler
MaxEuler == 2
\* with steps h of -MaxStep..MaxStep
MaxStep == 2
\* trajectories of 1..MaxPoints points
MaxPoints == 4
\* attractor parameters and starting coordinates of -MaxParameter..MaxParameter
MaxParameter == 1

EulerGrid == (0 - MaxEuler - MaxStep)..(MaxEuler + MaxStep)

\* functions passed as func: the right-hand sides y' = xy, y' = x^2 - y,
\* y' = y and y' = 1
funcs ==
    {[p \in EulerGrid \X EulerGrid |-> p[1] * p[2]],
     [p \in EulerGrid \X EulerGrid |-> p[1] * p[1] - p[2]],
     [p \in EulerGrid \X EulerGrid |-> p[2]],
     [p \in EulerGrid \X EulerGrid |-> 1]}

\* mutant: func is evaluated after x has been advanced
euler_step_new_x(x, y, h, func) ==
    LET x1 == x + h
        hs == h * func[<<x1, y>>]
        y1 == y + hs
    IN  <<x1, y1>>

euler_step(x, y, h, func) ==
    LET hs == h * func[<<x, y>>]
        x1 == x + h
        y1 == y + hs
    IN  <<x1, y1>>

call_euler_step ==
    /\ call.fn = "none"
    /\ \E x \in (0 - MaxEuler)..MaxEuler, y \in (0 - MaxEuler)..MaxEuler,
          h \in (0 - MaxStep)..MaxStep, func \in funcs :
          call' = [fn |-> "euler_step", x |-> x, y |-> y, h |-> h, func |-> func,
                   result |-> euler_step(x, y, h, func)]
    /\ UNCHANGED <<ga_current_population, ga_current_best, target_x, target_y,
                   mutate_checkbox, niters_slider, mutation_rate_slider,
                   mutation_scale_slider, displayed, periodic_instance, tapped,
                   last_event, next_generation_calls, boids, boids_displayed>>

\* math.sin and math.cos, of an angle counted in quarter turns
sin(t) == CASE t % 4 = 0 -> 0 [] t % 4 = 1 -> 1 [] t % 4 = 2 -> 0 [] t % 4 = 3 -> 0 - 1

cos(t) == sin(t + 1)

\* the parameters b and e of the notebook's functions are b_ and e_ here
Clifford(x, y, a, b_, c, d) ==
    <<sin(a * y) + c * cos(a * x), sin(b_ * x) + d * cos(b_ * y)>>

De_Jong(x, y, a, b_, c, d) ==
    <<sin(a * y) - cos(b_ * x), sin(c * x) - cos(d * y)>>

\* fn(x, y, a, b, c, d, e, f) for the function named fn
apply_fn(fn, x, y, a, b_, c, d, e_, f) ==
    CASE fn = "Clifford" -> Clifford(x, y, a, b_, c, d)
      [] fn = "De_Jong" -> De_Jong(x, y, a, b_, c, d)

\* mutant: every call of fn is given the starting point
RECURSIVE trajectory_loop_from_start(_, _, _, _, _, _, _, _, _, _)
trajectory_loop_from_start(fn, xy, a, b_, c, d, e_, f, n, i) ==
    IF i >= n - 1 THEN xy
    ELSE LET next == apply_fn(fn, xy[1][1], xy[2][1], a, b_, c, d, e_, f)
         IN  trajectory_loop_from_start(fn,
                             <<[xy[1] EXCEPT ![i + 2] = next[1]],
                               [xy[2] EXCEPT ![i + 2] = next[2]]>>,
                             a, b_, c, d, e_, f, n, i + 1)

\* the loop of trajectory_coords from index i on; xy = <<x, y>>, index i of
\* the arrays is position i + 1 of the sequences
RECURSIVE trajectory_loop(_, _, _, _, _, _, _, _, _, _)
trajectory_loop(fn, xy, a, b_, c, d, e_, f, n, i) ==
    IF i >= n - 1 THEN xy
    ELSE LET next == apply_fn(fn, xy[1][i + 1], xy[2][i + 1], a, b_, c, d, e_, f)
         IN  trajectory_loop(fn,
                             <<[xy[1] EXCEPT ![i + 2] = next[1]],
                               [xy[2] EXCEPT ![i + 2] = next[2]]>>,
                             a, b_, c, d, e_, f, n, i + 1)

\* trajectory_coords(fn, x0, y0, a, b, c, d, e, f, n), n >= 1: x[0] and y[0]
\* are written whatever n is
trajectory_coords(fn, x0, y0, a, b_, c, d, e_, f, n) ==
    trajectory_loop(fn, <<[[k \in 1..n |-> 0] EXCEPT ![1] = x0],
                          [[k \in 1..n |-> 0] EXCEPT ![1] = y0]>>,
                    a, b_, c, d, e_, f, n, 0)

Parameters == (0 - MaxParameter)..MaxParameter

call_trajectory_coords ==
    /\ call.fn = "none"
    /\ \E fn \in {"Clifford", "De_Jong"}, x0 \in Parameters, y0 \in Parameters,
          a \in Parameters, b_ \in Parameters, c \in Parameters, d \in Parameters,
          n \in 1..MaxPoints :
          call' = [fn |-> "trajectory_coords", attractor |-> fn, x0 |-> x0, y0 |-> y0,
                   a |-> a, b |-> b_, c |-> c, d |-> d, e |-> 0, f |-> 0, n |-> n,
                   result |-> trajectory_coords(fn, x0, y0, a, b_, c, d, 0, 0, n)]
    /\ UNCHANGED <<ga_current_population, ga_current_best, target_x, target_y,
                   mutate_checkbox, niters_slider, mutation_rate_slider,
                   mutation_scale_slider, displayed, periodic_instance, tapped,
                   last_event, next_generation_calls, boids, boids_displayed>>

(***************************************************************************)
(* load_google_landsat_metadata of src/heat_and_trees/Heat_and_Trees.ipynb.*)
(* A Python str is the sequence of its characters.  A Python value is      *)
(* [kind, value]: its type and the characters of its text.                 *)
(***************************************************************************)
\* a metadata value has at most MaxChars characters
MaxChars == 3
\* a metadata file has at most MaxRows rows
MaxRows == 2

Quote == "\""

Digits == {"1"}

\* the characters of the metadata values: a digit, a letter and the quote
Chars == Digits \cup {"L", Quote}

Strings == UNION {[1..n -> Chars] : n \in 0..MaxChars}

\* eval(x) for these strings: an int literal, a quoted str literal, or an
\* exception (SyntaxError, NameError for a name that is not defined)
eval(x) ==
    IF Len(x) >= 1 /\ \A i \in 1..Len(x) : x[i] \in Digits
    THEN [raised |-> FALSE, value |-> [kind |-> "int", value |-> x]]
    ELSE IF /\ Len(x) >= 2
            /\ x[1] = Quote
            /\ x[Len(x)] = Quote
            /\ \A i \in 2..(Len(x) - 1) : x[i] # Quote
         THEN [raised |-> FALSE,
               value |-> [kind |-> "str", value |-> SubSeq(x, 2, Len(x) - 1)]]
         ELSE [raised |-> TRUE]

\* mutant: a value that cannot be evaluated becomes the empty str
parse_type_blank(x) ==
    IF eval(x).raised THEN [kind |-> "str", value |-> <<>>] ELSE eval(x).value

\* parse_type(x): try: return eval(x); except: return x
parse_type(x) ==
    IF eval(x).raised THEN [kind |-> "str", value |-> x] ELSE eval(x).value

\* load_google_landsat_metadata(path, row, product_id): file is what the URL
\* holds, None when there is no such file (the read raises, nothing catches
\* it), else <<values>>, the text right of '=' in each row
load_google_landsat_metadata(file) ==
    IF file = None
    THEN [raised |-> TRUE, metadata |-> None]
    ELSE [raised |-> FALSE,
          metadata |-> [i \in 1..Len(file[1]) |-> parse_type(file[1][i])]]

call_load_google_landsat_metadata ==
    /\ call.fn = "none"
    /\ \E file \in {None} \cup {<<values>> :
                                  values \in UNION {[1..n -> Strings] : n \in 0..MaxRows}} :
          call' = [fn |-> "load_google_landsat_metadata", file |-> file,
                   result |-> load_google_landsat_metadata(file)]
    /\ UNCHANGED <<ga_current_population, ga_current_best, target_x, target_y,
                   mutate_checkbox, niters_slider, mutation_rate_slider,
                   mutation_scale_slider, displayed, periodic_instance, tapped,
                   last_event, next_generation_calls, boids, boids_displayed>>

\* no dashboard is looked at: the cells that define the functions have run
InitFunctions ==
    /\ boids = None
    /\ boids_displayed = None
    /\ ga_current_population = None
    /\ ga_current_best = None
    /\ target_x = 0
    /\ target_y = 0
    /\ tapped = None
    /\ mutate_checkbox = None
    /\ niters_slider = None
    /\ mutation_rate_slider = None
    /\ mutation_scale_slider = None
    /\ displayed = None
    /\ periodic_instance = None
    /\ last_event = <<"none">>
    /\ next_generation_calls = 0
    /\ call = [fn |-> "none"]

NextFunctions ==
    \/ call_euler_step
    \/ call_trajectory_coords

SpecFunctions == InitFunctions /\ [][NextFunctions]_vars

NextLandsat == call_load_google_landsat_metadata

SpecLandsat == InitFunctions /\ [][NextLandsat]_vars

(***************************************************************************)
(* The properties.                                                         *)
(***************************************************************************)
\* the squared distance of an individual to the target, stated without the
\* kernel's operators: the fitness, in the model's units
Distance2(individual) ==
    (individual[1] - target_x) * (individual[1] - target_x)
    + (individual[2] - target_y) * (individual[2] - target_y)

EventName == last_event[1]

UpdateEvents == {"e", "next_gen_event", "periodic"}

\* C1: after any sequence of callbacks ga.current_population has the size it
\* was created with, and every individual has vector_length genes.
C1_PopulationSizeFixed ==
    /\ Len(ga_current_population) = population_size
    /\ \A i \in 1..Len(ga_current_population) :
          Len(ga_current_population[i]) = vector_length

\* a periodic update has just replaced the population
C1_Witness ==
    /\ last_event = <<"periodic">>
    /\ next_generation_calls = 1
    /\ Len(ga_current_population) = population_size

\* C2, as claimed: with the target held fixed, the fitness of ga.current_best
\* after next_generation is never larger than it was before that call.
C2_BestNeverWorse ==
    [][(/\ EventName' \in {"next_gen_event", "periodic"}
        /\ EventName \in UpdateEvents)
       => Distance2(ga_current_best') <= Distance2(ga_current_best)]_vars

\* C3: tournament_select_with_replacement returns one of the challengers it
\* drew, so a member of the population; no challenger is fitter; among the
\* fittest challengers it is the one drawn first.
C3_TournamentReturnsFirstFittest ==
    call.fn = "tournament_select_with_replacement" =>
        LET n == call.tournament_size
            challengers == [k \in 1..n |-> call.population[call.challengers_indexes[k]]]
            fittest == {k \in 1..n : \A j \in 1..n :
                           Distance2(challengers[k]) <= Distance2(challengers[j])}
        IN  /\ \E k \in 1..n : call.result = challengers[k]
            /\ \E i \in 1..Len(call.population) : call.result = call.population[i]
            /\ \A j \in 1..n : Distance2(call.result) <= Distance2(challengers[j])
            /\ \E k \in fittest :
                  /\ call.result = challengers[k]
                  /\ \A j \in fittest : k <= j

\* a tournament whose fittest challengers are two different individuals
C3_Witness ==
    /\ call.fn = "tournament_select_with_replacement"
    /\ call.tournament_size >= 2
    /\ LET first == call.population[call.challengers_indexes[1]]
           second == call.population[call.challengers_indexes[2]]
       IN  /\ first # second
           /\ Distance2(first) = Distance2(second)
           /\ call.result = first

\* C4, as claimed: for every draw of the cut points there are 0 <= c <= d
\* with child_a = parent_a[0:c] + parent_b[c:d] + parent_a[d:] and child_b =
\* parent_b[0:c] + parent_a[c:d] + parent_b[d:], the swapped middle part is
\* not empty, both children have the parents' length, and at every position
\* the children's genes are the parents' genes.
C4_TwoPointCrossover ==
    call.fn = "crossover" =>
        LET pa == call.parent_a
            pb == call.parent_b
            l == Len(pa)
            child_a == call.result[1]
            child_b == call.result[2]
        IN  /\ \E c \in 0..(l + 1), d \in 0..(l + 1) :
                  /\ c <= d
                  /\ child_a = Slice(pa, 0, c) \o Slice(pb, c, d) \o Slice(pa, d, l)
                  /\ child_b = Slice(pb, 0, c) \o Slice(pa, c, d) \o Slice(pb, d, l)
                  /\ Slice(pb, c, d) # <<>>
            /\ Len(child_a) = l
            /\ Len(child_b) = l
            /\ \A i \in 1..l :
                  \/ child_a[i] = pa[i] /\ child_b[i] = pb[i]
                  \/ child_a[i] = pb[i] /\ child_b[i] = pa[i]

\* C5, as claimed: for every population size every row of the array
\* update_population returns was assigned a child of two selected parents.
C5_EveryRowAssigned ==
    call.fn = "update_population" =>
        /\ Len(call.result) = Len(call.current_population)
        /\ \A r \in 1..Len(call.next_population) :
              /\ call.next_population[r] # Uninitialized
              /\ \E p \in iteration_results(call.current_population, call.should_mutate,
                                            call.mutation_rate, call.mutation_scale) :
                    call.result[r] \in {p[1], p[2]}

C7_NewPopulationShownAsCreated ==
    last_event = <<"e">> =>
        /\ next_generation_calls = 0
        /\ displayed = <<[population |-> ga_current_population,
                          best |-> ga_current_best]>>
        /\ Len(ga_current_population) = population_size
        /\ \A i \in 1..Len(ga_current_population) :
              /\ Len(ga_current_population[i]) = vector_length
              /\ \A j \in 1..vector_length : ga_current_population[i][j] \in RandValues

\* C8: the target is the position tapped last; only a tap_event with x not
\* None changes it; the ga.current_best a generational update leaves is the
\* first fittest individual at that target.
C8_TargetWrittenOnlyByTap ==
    /\ [](/\ <<target_x, target_y>> = tapped
          /\ (EventName = "tap_event" /\ last_event[2] # None
                => <<target_x, target_y>> = <<last_event[2][1], last_event[3][1]>>)
          /\ (EventName \in UpdateEvents
                => /\ \E i \in 1..Len(ga_current_population) :
                         ga_current_best = ga_current_population[i]
                   /\ \A i \in 1..Len(ga_current_population) :
                         (tapped[1] - ga_current_best[1]) * (tapped[1] - ga_current_best[1])
                         + (tapped[2] - ga_current_best[2]) * (tapped[2] - ga_current_best[2])
                         <= (tapped[1] - ga_current_population[i][1])
                              * (tapped[1] - ga_current_population[i][1])
                            + (tapped[2] - ga_current_population[i][2])
                              * (tapped[2] - ga_current_population[i][2])))
    /\ [][<<target_x, target_y>>' # <<target_x, target_y>>
             => /\ EventName' = "tap_event"
                /\ last_event'[2] # None]_vars

\* a generation was made after a tap, and its best is fitter than another
\* individual at the tapped target
C8_Witness ==
    /\ EventName = "next_gen_event"
    /\ tapped = <<MaxTap, MaxTap>>
    /\ <<target_x, target_y>> = <<MaxTap, MaxTap>>
    /\ \E i \in 1..Len(ga_current_population) :
          Distance2(ga_current_population[i]) > Distance2(ga_current_best)

\* C9, as claimed: mutate returns the child unchanged whenever the draw is
\* above mutation_rate; with mutation_rate = 0 no draw changes the child;
\* with mutation_rate = 1 every draw adds the perturbation.
C9_MutationRateIsProbability ==
    call.fn = "mutate" =>
        /\ (call.u > call.mutation_rate => call.result = call.child)
        /\ (call.mutation_rate = 0 => call.result = call.child)
        /\ (call.mutation_rate = RateSteps =>
               call.result = [i \in 1..Len(call.child) |->
                                 call.child[i] + call.mutation_value[i]])

\* C11, as claimed: after every call of flock() every boid position is in
\* the world: 0 <= x < width and 0 <= y < height.
C11_PositionsInWorld ==
    call.fn = "flock" =>
        \A i \in 1..Len(boids.pos) :
            /\ boids.pos[i] # NaN
            /\ 0 <= boids.pos[i][1] /\ boids.pos[i][1] < boids.width * Unit
            /\ 0 <= boids.pos[i][2] /\ boids.pos[i][2] < boids.height * Unit

C13_EulerStep ==
    call.fn = "euler_step" =>
        call.result = <<call.x + call.h, call.y + call.h * call.func[<<call.x, call.y>>]>>

\* a step with h # 0 where func differs between the old and the new x
C13_Witness ==
    /\ call.fn = "euler_step"
    /\ call.h # 0
    /\ call.func[<<call.x, call.y>>] # call.func[<<call.x + call.h, call.y>>]
    /\ call.result[2] # call.y

\* C14: trajectory_coords returns n points, point 0 is (x0, y0), and point
\* i+1 is fn applied to point i with the same parameters; so the result is
\* determined by the arguments.
C14_TrajectoryFollowsFn ==
    call.fn = "trajectory_coords" =>
        LET x == call.result[1]
            y == call.result[2]
        IN  /\ Len(x) = call.n
            /\ Len(y) = call.n
            /\ x[1] = call.x0
            /\ y[1] = call.y0
            /\ \A i \in 1..(call.n - 1) :
                  <<x[i + 1], y[i + 1]>> =
                     apply_fn(call.attractor, x[i], y[i],
                              call.a, call.b, call.c, call.d, call.e, call.f)

\* a trajectory of at least three points that are all different
C14_Witness ==
    /\ call.fn = "trajectory_coords"
    /\ call.n >= 3
    /\ LET x == call.result[1]
           y == call.result[2]
       IN  /\ <<x[1], y[1]>> # <<x[2], y[2]>>
           /\ <<x[2], y[2]>> # <<x[3], y[3]>>
           /\ <<x[1], y[1]>> # <<x[3], y[3]>>

\* C15, as claimed: a failure while loading or parsing is not caught: when
\* the file is missing or a value cannot be evaluated, loading the Landsat
\* metadata raises.
C15_FailuresPropagate ==
    call.fn = "load_google_landsat_metadata" =>
        /\ (call.file = None => call.result.raised)
        /\ (/\ call.file # None
            /\ \E i \in 1..Len(call.file[1]) : eval(call.file[1][i]).raised
            => call.result.raised)

\* C15, amended: a missing file makes the load raise; a value that cannot
\* be evaluated does not: parse_type catches the exception and the value is
\* kept as the str it was read as, the other values being what eval returns.
C15_UnparsedValueKeptAsText ==
    call.fn = "load_google_landsat_metadata" =>
        /\ (call.file = None => call.result.raised)
        /\ (call.file # None =>
               /\ ~call.result.raised
               /\ Len(call.result.metadata) = Len(call.file[1])
               /\ \A i \in 1..Len(call.file[1]) :
                     LET x == call.file[1][i]
                     IN  IF eval(x).raised
                         THEN call.result.metadata[i] = [kind |-> "str", value |-> x]
                         ELSE call.result.metadata[i] = eval(x).value)

\* a file with a value that cannot be evaluated and one that can
C15_Witness ==
    /\ call.fn = "load_google_landsat_metadata"
    /\ call.file # None
    /\ ~call.result.raised
    /\ \E i, j \in 1..Len(call.file[1]) :
          /\ eval(call.file[1][i]).raised
          /\ call.file[1][i] # <<>>
          /\ ~eval(call.file[1][j]).raised

====
